---- MODULE Spec2Model ----
(***************************************************************************)
(* Model of the market-sentiment tools of mame-daifuku/marketinfo:         *)
(*   src/test.py  the text-report CLI   (CNNFearGreedScraper, NAAIMScraper,*)
(*                main)                                                    *)
(*   src/app.py   the Streamlit dashboard (the same two scrapers, main)    *)
(* Numbers are exact decimals, texts are sequences of one-character        *)
(* strings, and the localized (Japanese) labels are written in romaji.     *)
(***************************************************************************)
EXTENDS Integers, Sequences, FiniteSets, TLC

VARIABLES
    pc,              \* position of the operation or program under analysis
    program,         \* "cli" (src/test.py) or "dash" (src/app.py)
    exposure_value,  \* argument of get_sentiment_rating
    rating,          \* its result: <<localized label, canonical identifier>>
    requests,        \* the HTTP GETs issued so far, in order (their URLs)
    naaim_probe,     \* NAAIMScraper.get_current_exposure of the CLI: `response`
    naaim_response,  \* the response to the GET of the index page
    naaim_data,      \* what get_current_exposure returned
    naaim_raised,    \* the exception get_current_exposure let escape
    cnn_response,    \* the response to the GET of get_current_index
    cnn_data,        \* what get_current_index returned (main: current_data)
    cnn_raised,      \* the exception get_current_index let escape
    detail_response, \* the response to the GET of get_detailed_indicators
    indicators,      \* what get_detailed_indicators returned
    history_response,\* the response to the GET of get_historical_data
    historical_data, \* what get_historical_data returned
    options,         \* CLI: args (verbose, naaim); dashboard: the sidebar
                     \* checkboxes (auto_refresh, show_details)
    display,         \* what was written so far, in order: the lines of
                     \* standard output (CLI), the elements of the page
                     \* (dashboard)
    uncaught         \* the exception that ended main

rating_vars == <<exposure_value, rating>>

naaim_vars == <<naaim_probe, naaim_response, naaim_data, naaim_raised>>

cnn_vars == <<cnn_response, cnn_data, cnn_raised>>

detail_vars ==
    <<detail_response, indicators, history_response, historical_data>>

vars == <<pc, program, requests, rating_vars, naaim_vars, cnn_vars,
          detail_vars, options, display, uncaught>>

\* Python's None
None == [kind |-> "None"]

\* no exception
NoException == "none"

(***************************************************************************)
(* Bounds of the model.                                                    *)
(***************************************************************************)
\* classifier inputs run from -BelowUnits to 200 + AboveUnits
BelowUnits == 3
AboveUnits == 3
\* a page text is made of at most MaxLen fragments
MaxLen == 3
\* the random source is sampled at MaxDraw + 1 points from each end of [30, 110]
MaxDraw == 1

(***************************************************************************)
(* Numbers.  A Python float that was read from decimal text or drawn by    *)
(* the random source is kept as an exact decimal: a sign, the digits of    *)
(* the integer part (no leading zero) and the digits of the fraction (no   *)
(* trailing zero), so that equal numbers are equal records.                *)
(***************************************************************************)
RECURSIVE StripLeadingZeros(_)
StripLeadingZeros(ds) ==
    IF ds # <<>> /\ Head(ds) = 0 THEN StripLeadingZeros(Tail(ds)) ELSE ds

RECURSIVE StripTrailingZeros(_)
StripTrailingZeros(ds) ==
    IF ds # <<>> /\ ds[Len(ds)] = 0
    THEN StripTrailingZeros(SubSeq(ds, 1, Len(ds) - 1))
    ELSE ds

MkNum(neg, ip, fp) ==
    LET i == StripLeadingZeros(ip)
        f == StripTrailingZeros(fp)
    IN  [neg |-> neg /\ (i # <<>> \/ f # <<>>), ip |-> i, fp |-> f]

RECURSIVE NatDigits(_)
NatDigits(n) == IF n = 0 THEN <<>> ELSE Append(NatDigits(n \div 10), n % 10)

Abs(n) == IF n < 0 THEN 0 - n ELSE n

Int2Dec(n) == MkNum(n < 0, NatDigits(Abs(n)), <<>>)

\* the number n/10
Tenths(n) == MkNum(n < 0, NatDigits(Abs(n) \div 10), <<Abs(n) % 10>>)

DigitAt(ds, i) == IF i <= Len(ds) THEN ds[i] ELSE 0

SeqLess(s, t) ==
    \E i \in 1..(IF Len(s) > Len(t) THEN Len(s) ELSE Len(t)) :
        /\ DigitAt(s, i) < DigitAt(t, i)
        /\ \A j \in 1..(i - 1) : DigitAt(s, j) = DigitAt(t, j)

MagLess(a, b) ==
    \/ Len(a.ip) < Len(b.ip)
    \/ /\ Len(a.ip) = Len(b.ip)
       /\ \/ SeqLess(a.ip, b.ip)
          \/ a.ip = b.ip /\ SeqLess(a.fp, b.fp)

\* a < b
Less(a, b) ==
    IF a.neg THEN (IF b.neg THEN MagLess(b, a) ELSE TRUE)
    ELSE (IF b.neg THEN FALSE ELSE MagLess(a, b))

\* a <= b
Leq(a, b) == a = b \/ Less(a, b)

\* the literals the code compares exposure values with
Num0 == Int2Dec(0)
Num40 == Int2Dec(40)
Num60 == Int2Dec(60)
Num80 == Int2Dec(80)
Num95 == Int2Dec(95)
Num200 == Int2Dec(200)

IsNumber(x) == DOMAIN x = {"neg", "ip", "fp"}

(***************************************************************************)
(* NAAIMScraper.get_sentiment_rating (identical in test.py and app.py).    *)
(***************************************************************************)
\* a plausible slip: the neutral/bullish threshold compared with <=
get_sentiment_rating_le(v) ==
    IF Less(v, Num40) THEN <<"kyokudo no yowaki", "extreme_bearish">>
    ELSE IF Less(v, Num60) THEN <<"yowaki", "bearish">>
    ELSE IF Leq(v, Num80) THEN <<"churitsu", "neutral">>
    ELSE IF Less(v, Num95) THEN <<"tsuyoki", "bullish">>
    ELSE <<"kyokudo no tsuyoki", "extreme_bullish">>

\* a plausible slip: the results of two branches exchanged
get_sentiment_rating_swapped(v) ==
    IF Less(v, Num40) THEN <<"kyokudo no yowaki", "extreme_bearish">>
    ELSE IF Less(v, Num60) THEN <<"churitsu", "neutral">>
    ELSE IF Less(v, Num80) THEN <<"yowaki", "bearish">>
    ELSE IF Less(v, Num95) THEN <<"tsuyoki", "bullish">>
    ELSE <<"kyokudo no tsuyoki", "extreme_bullish">>

get_sentiment_rating(v) ==
    IF Less(v, Num40) THEN <<"kyokudo no yowaki", "extreme_bearish">>
    ELSE IF Less(v, Num60) THEN <<"yowaki", "bearish">>
    ELSE IF Less(v, Num80) THEN <<"churitsu", "neutral">>
    ELSE IF Less(v, Num95) THEN <<"tsuyoki", "bullish">>
    ELSE <<"kyokudo no tsuyoki", "extreme_bullish">>

(***************************************************************************)
(* Texts and the regular expressions of the percentage extraction.         *)
(* A text is a sequence of one-character strings.                          *)
(***************************************************************************)
DigitChars == <<"0", "1", "2", "3", "4", "5", "6", "7", "8", "9">>

DigitSet == {DigitChars[d] : d \in 1..10}

IsDigit(c) == c \in DigitSet

DigitValues == [c \in DigitSet |-> (CHOOSE d \in 1..10 : DigitChars[d] = c) - 1]

DigitVal(c) == DigitValues[c]

UpperChars ==
    <<"A", "B", "C", "D", "E", "F", "G", "H", "I", "J", "K", "L", "M",
      "N", "O", "P", "Q", "R", "S", "T", "U", "V", "W", "X", "Y", "Z">>

LowerChars ==
    <<"a", "b", "c", "d", "e", "f", "g", "h", "i", "j", "k", "l", "m",
      "n", "o", "p", "q", "r", "s", "t", "u", "v", "w", "x", "y", "z">>

LowerOf ==
    [c \in {UpperChars[k] : k \in 1..26} |->
        LowerChars[CHOOSE k \in 1..26 : UpperChars[k] = c]]

\* re.IGNORECASE: letters are compared in lower case
Lower(c) == IF c \in DOMAIN LowerOf THEN LowerOf[c] ELSE c

IsSpace(c) == c \in {" ", "\n", "\t"}

RECURSIVE LStrip(_)
LStrip(t) == IF t # <<>> /\ IsSpace(Head(t)) THEN LStrip(Tail(t)) ELSE t

RECURSIVE RStrip(_)
RStrip(t) ==
    IF t # <<>> /\ IsSpace(t[Len(t)]) THEN RStrip(SubSeq(t, 1, Len(t) - 1))
    ELSE t

\* str.strip()
Strip(t) == RStrip(LStrip(t))

RECURSIVE DigitsEnd(_, _)
\* \d* from position i: the first position at or after i that holds no digit
DigitsEnd(t, i) ==
    IF i <= Len(t) /\ IsDigit(t[i]) THEN DigitsEnd(t, i + 1) ELSE i

SetMin(S) == CHOOSE x \in S : \A y \in S : x <= y

\* the positions at or after i that hold a digit
DigitPositions(t, i) == { k \in i..Len(t) : IsDigit(t[k]) }

\* the first position at or after i that holds a digit, 0 when there is none
NextDigit(t, i) ==
    IF DigitPositions(t, i) = {} THEN 0 ELSE SetMin(DigitPositions(t, i))

\* a plausible slip: the pattern \d+ , which stops at the decimal point
NumberEnd_integer(t, i) == DigitsEnd(t, i)

\* \d+\.?\d* matched at the digit at position i: the position after the match
NumberEnd(t, i) ==
    LET j == DigitsEnd(t, i)
    IN  IF j <= Len(t) /\ t[j] = "." THEN DigitsEnd(t, j + 1) ELSE j

\* \d{1,3}\.?\d* matched at the digit at position i: the position after it
ThreeDigitNumberEnd(t, i) ==
    LET r == DigitsEnd(t, i)
        j == IF r > i + 3 THEN i + 3 ELSE r
        d == IF j <= Len(t) /\ t[j] = "." THEN j + 1 ELSE j
    IN  DigitsEnd(t, d)

RECURSIVE FindAllPlain(_, _)
\* re.findall(r'(\d+\.?\d*)%?', t) from position pos
FindAllPlain(t, pos) ==
    LET i == NextDigit(t, pos)
    IN  IF i = 0 THEN <<>>
        ELSE LET k == NumberEnd(t, i)
                 e == IF k <= Len(t) /\ t[k] = "%" THEN k + 1 ELSE k
             IN  <<SubSeq(t, i, k - 1)>> \o FindAllPlain(t, e)

RECURSIVE FindAllThreeDigit(_, _)
\* re.findall(r'(\d{1,3}\.?\d*)', t) from position pos
FindAllThreeDigit(t, pos) ==
    LET i == NextDigit(t, pos)
    IN  IF i = 0 THEN <<>>
        ELSE LET k == ThreeDigitNumberEnd(t, i)
             IN  <<SubSeq(t, i, k - 1)>> \o FindAllThreeDigit(t, k)

\* the literal kw stands at position i of t, letter case ignored
MatchesAt(t, i, kw) ==
    /\ i + Len(kw) - 1 <= Len(t)
    /\ \A k \in 1..Len(kw) : Lower(t[i + k - 1]) = Lower(kw[k])

\* .*? followed by a digit, from position p: the digit's position, 0 when a
\* line break comes first or no digit follows
LazyGapDigit(t, p) ==
    LET d == NextDigit(t, p)
    IN  IF d # 0 /\ \A k \in p..(d - 1) : t[k] # "\n" THEN d ELSE 0

RECURSIVE FindAllPrefixed(_, _, _)
\* re.findall(kw + r'.*?(\d+\.?\d*)', t, re.IGNORECASE) from position pos
FindAllPrefixed(t, pos, kw) ==
    LET starts == { i \in pos..Len(t) :
                      MatchesAt(t, i, kw) /\ LazyGapDigit(t, i + Len(kw)) # 0 }
    IN  IF starts = {} THEN <<>>
        ELSE LET d == LazyGapDigit(t, SetMin(starts) + Len(kw))
                 k == NumberEnd(t, d)
             IN  <<SubSeq(t, d, k - 1)>> \o FindAllPrefixed(t, k, kw)

IndexWord == <<"I", "n", "d", "e", "x">>

ExposureWord == <<"e", "x", "p", "o", "s", "u", "r", "e">>

\* the matches of the four patterns, in the order of the list `patterns`
PatternMatches(t) ==
    << FindAllPlain(t, 1),
       FindAllPrefixed(t, 1, IndexWord),
       FindAllThreeDigit(t, 1),
       FindAllPrefixed(t, 1, ExposureWord) >>

\* the result of float() on a text that is no number
ValueError == [kind |-> "ValueError"]

\* positions of the decimal points of s
DotsOf(s) == { i \in 1..Len(s) : s[i] = "." }

DigitSeq(s) == [i \in 1..Len(s) |-> DigitVal(s[i])]

\* float(s) for a text of digits and points: the number, or ValueError when
\* s is no decimal literal
ParseFloat(s) ==
    IF \/ Cardinality(DotsOf(s)) > 1
       \/ \A i \in 1..Len(s) : ~IsDigit(s[i])
       \/ \E i \in 1..Len(s) : ~IsDigit(s[i]) /\ s[i] # "."
    THEN ValueError
    ELSE IF DotsOf(s) = {} THEN MkNum(FALSE, DigitSeq(s), <<>>)
    ELSE LET p == CHOOSE i \in DotsOf(s) : TRUE
         IN  MkNum(FALSE, DigitSeq(SubSeq(s, 1, p - 1)),
                   DigitSeq(SubSeq(s, p + 1, Len(s))))

\* 0 <= value <= 200
InRange(value) == Leq(Num0, value) /\ Leq(value, Num200)

(***************************************************************************)
(* Calls, exceptions and HTTP responses.                                   *)
(***************************************************************************)
Return(v) == [kind |-> "return", value |-> v]

Raise(e) == [kind |-> "raise", exc |-> e]

\* the classes of requests.exceptions.RequestException that can occur
RequestExceptions ==
    {"Timeout", "ConnectionError", "HTTPError", "RequestsJSONDecodeError"}

\* isinstance(exc, cls) for the classes the except clauses name
IsInstance(exc, cls) ==
    \/ cls = "Exception"
    \/ cls = exc
    \/ cls = "RequestException" /\ exc \in RequestExceptions
    \/ cls = "JSONDecodeError" /\ exc = "RequestsJSONDecodeError"

HttpResponse(status, body) ==
    [kind |-> "response", status_code |-> status, body |-> body]

NetworkFailure(e) == [kind |-> "exception", exc |-> e]

\* something written to standard output (CLI) or put on the page (dashboard):
\* what it is, and the values it shows
Shown(kind, content) == [kind |-> kind, content |-> content]

\* requests.get(...): the response, or the exception of a failed request
requests_get(r) == IF r.kind = "exception" THEN Raise(r.exc) ELSE Return(r)

\* response.raise_for_status()
raise_for_status(r) ==
    IF r.status_code >= 400 /\ r.status_code < 600 THEN Raise("HTTPError")
    ELSE Return(None)

(***************************************************************************)
(* NAAIMScraper: the percentage-index fetcher.                             *)
(***************************************************************************)
NaaimProbeUrl == "https://www.naaim.org/newsroom/naaim-exposure-index"

NaaimPageUrl == "https://naaim.org/programs/naaim-exposure-index/"

\* markup that the HTML parser rejects
Unparsable == [kind |-> "unparsable"]

\* a page: whether it holds <div id="brxe-ymwzia">, and its text, which is
\* the text of that div when it is there
HtmlPage(has_div, text) == [kind |-> "html", has_div |-> has_div, text |-> text]

\* BeautifulSoup(response.content, 'html.parser')
BeautifulSoup(body) ==
    IF body.kind = "unparsable" THEN Raise("ParserRejectedMarkup")
    ELSE Return(body)

\* soup.find('div', id='brxe-ymwzia'): the div, or None
find_target_div(soup) == IF soup.has_div THEN [text |-> soup.text] ELSE None

\* target_div.get_text(strip=True)
get_text(div) == Strip(div.text)

\* response.text
response_text(body) == body.text

\* `try: value = float(match); if 0 <= value <= 200:` holds for value
Accepted(value) == value # ValueError /\ InRange(value)

RECURSIVE LastInRange(_, _)
\* a plausible slip: the loop keeps the last match in range, not the first
LastInRange(matches, k) ==
    IF k > Len(matches) THEN None
    ELSE IF LastInRange(matches, k + 1) # None THEN LastInRange(matches, k + 1)
    ELSE IF Accepted(ParseFloat(matches[k])) THEN ParseFloat(matches[k])
    ELSE None

\* a plausible slip: the range check forgotten
FirstParsed(matches, k) ==
    IF k > Len(matches) THEN None ELSE ParseFloat(matches[k])

RECURSIVE FirstInRange(_, _)
\* `for match in matches`: the first match from index k on whose float lies
\* in [0, 200], None when there is none
FirstInRange(matches, k) ==
    IF k > Len(matches) THEN None
    ELSE IF Accepted(ParseFloat(matches[k])) THEN ParseFloat(matches[k])
    ELSE FirstInRange(matches, k + 1)

RECURSIVE ScanPatterns(_, _)
\* `for pattern in patterns`: the value the first pattern from index p on
\* accepts, None when no pattern accepts one
ScanPatterns(pm, p) ==
    IF p > Len(pm) THEN None
    ELSE IF pm[p] # <<>> /\ FirstInRange(pm[p], 1) # None
    THEN FirstInRange(pm[p], 1)
    ELSE ScanPatterns(pm, p + 1)

\* the value extracted from the div's text, None when none is accepted
ExtractExposure(text_content) == ScanPatterns(PatternMatches(text_content), 1)

Today == "today"

Now == "now"

SourceOf ==
    [cli |-> "NAAIM official site (div#brxe-ymwzia)", dash |-> "NAAIM official site"]

SourceFallback == "NAAIM official site (fallback)"

NoteOf ==
    [cli |-> "demo data (a real API key or scraping is needed)", dash |-> "demo data"]

SiteReading(prog, value, text_content) ==
    [date |-> Today, exposure |-> value, last_updated |-> Now,
     source |-> SourceOf[prog], raw_text |-> text_content]

FallbackReading(value) ==
    [date |-> Today, exposure |-> value, last_updated |-> Now,
     source |-> SourceFallback]

\* the draws of random.uniform(30, 110), in hundredths
UniformDraws ==
    {3000 + 5 * i : i \in 0..MaxDraw} \cup {11000 - 5 * i : i \in 0..MaxDraw}

\* round(x, 1) of x = h/100, in tenths.  A decimal tie is no tie of the
\* binary float, which lies on either side of it: both results can occur.
Round1(h) ==
    LET q == h \div 10
        r == h % 10
    IN  IF r < 5 THEN {q} ELSE IF r > 5 THEN {q + 1} ELSE {q, q + 1}

\* NAAIMScraper._get_mock_data with the rounded draw `tenths`
get_mock_data(prog, tenths) ==
    [date |-> Today, exposure |-> Tenths(tenths), last_updated |-> Now,
     note |-> NoteOf[prog]]

PhraseText ==
    <<"T", "h", "i", "s", " ", "w", "e", "e", "k", "'", "s", " ",
      "N", "A", "A", "I", "M", " ", "E", "x", "p", "o", "s", "u", "r", "e", " ",
      "I", "n", "d", "e", "x", " ", "n", "u", "m", "b", "e", "r", " ", "i", "s">>

\* re.search(r"This week's NAAIM Exposure Index number is[^\d]*(\d+\.?\d*)",
\* content, re.IGNORECASE): group 1, None when there is no match
SearchPhrase(content) ==
    LET starts == { i \in 1..Len(content) :
                      /\ MatchesAt(content, i, PhraseText)
                      /\ NextDigit(content, i + Len(PhraseText)) # 0 }
    IN  IF starts = {} THEN None
        ELSE LET d == NextDigit(content, SetMin(starts) + Len(PhraseText))
             IN  [group1 |-> SubSeq(content, d, NumberEnd(content, d) - 1)]

\* the marker for `return self._get_mock_data()`
UseMock == [kind |-> "use_mock"]

\* the value extracted from the text of the div, None without a div
DivValue(target_div) ==
    IF target_div = None THEN None ELSE ExtractExposure(get_text(target_div))

\* app.py 101-128: `if target_div:` with its loops, then the mock data
DashResult(target_div, value) ==
    IF value # None THEN Return(SiteReading("dash", value, get_text(target_div)))
    ELSE Return(UseMock)

DashExtract(soup) ==
    DashResult(find_target_div(soup), DivValue(find_target_div(soup)))

\* test.py 253-259: the reading made of the whole-page match
FallbackResult(value) ==
    IF value = ValueError THEN Raise("ValueError")
    ELSE Return(FallbackReading(value))

\* test.py 214-261: the same loops, then the search of the whole page
CliResult(target_div, value, match) ==
    IF value # None THEN Return(SiteReading("cli", value, get_text(target_div)))
    ELSE IF match # None THEN FallbackResult(ParseFloat(match.group1))
    ELSE Return(UseMock)

CliExtract(soup) ==
    CliResult(find_target_div(soup), DivValue(find_target_div(soup)),
              SearchPhrase(response_text(soup)))

\* the try block that fetches and parses the index page
\* (test.py 202-261 in _get_from_naaim_website, app.py 93-128)
PageTry(prog, r) ==
    IF requests_get(r).kind = "raise" THEN requests_get(r)
    ELSE IF raise_for_status(r).kind = "raise" THEN raise_for_status(r)
    ELSE IF BeautifulSoup(r.body).kind = "raise" THEN BeautifulSoup(r.body)
    ELSE IF prog = "cli" THEN CliExtract(BeautifulSoup(r.body).value)
    ELSE DashExtract(BeautifulSoup(r.body).value)

\* a plausible slip: the handler catches the request's exceptions only
PageHandlerClass_request == "RequestException"

\* `except Exception as e` of that try block (test.py 263, app.py 130)
PageHandlerClass == "Exception"

\* `except Exception as e` of the CLI's get_current_exposure (test.py 193)
ProbeHandlerClass == "Exception"

\* the GET succeeded and the page was parsed
PageReached(r) ==
    /\ requests_get(r).kind # "raise"
    /\ raise_for_status(r).kind # "raise"
    /\ BeautifulSoup(r.body).kind # "raise"

\* test.py 217: the CLI prints the text of the div it found
TextPrints(prog, soup) ==
    IF prog = "cli" /\ find_target_div(soup) # None
    THEN <<Shown("naaim_text", [text |-> get_text(find_target_div(soup))])>>
    ELSE <<>>

\* test.py 264 and 194, app.py 131: the handler that catches the exception
\* reports it
ErrorPrints(prog, out, page_cls, probe_cls) ==
    IF out.kind = "raise" /\ IsInstance(out.exc, page_cls)
    THEN <<Shown("naaim_error",
                 [label |-> IF prog = "cli" THEN "NAAIM web scraping error"
                            ELSE "NAAIM data shutoku error",
                  exc |-> out.exc])>>
    ELSE IF out.kind = "raise" /\ prog = "cli" /\ IsInstance(out.exc, probe_cls)
    THEN <<Shown("naaim_error",
                 [label |-> "NAAIM data shutoku error", exc |-> out.exc])>>
    ELSE <<>>

\* an exception of class cls is handled by returning the mock data
Handle(out, cls) ==
    IF out.kind = "raise" /\ IsInstance(out.exc, cls) THEN Return(UseMock)
    ELSE out

\* the try block with its handler: the reading returned, UseMock when the
\* mock data is returned instead, or the exception that escapes
PageOutcome(prog, r) == Handle(PageTry(prog, r), PageHandlerClass)

\* the same seen from get_current_exposure: in the CLI the call of
\* _get_from_naaim_website stands in the try block of get_current_exposure
ExposureOutcome(prog, r) ==
    IF prog = "cli" THEN Handle(PageOutcome(prog, r), ProbeHandlerClass)
    ELSE PageOutcome(prog, r)

\* what the GET of the index page and the extraction write
PagePrints(prog, r) ==
    (IF PageReached(r) THEN TextPrints(prog, BeautifulSoup(r.body).value)
     ELSE <<>>)
        \o ErrorPrints(prog, PageTry(prog, r), PageHandlerClass,
                       ProbeHandlerClass)

\* what the first GET of the CLI writes
ProbePrints(r) ==
    IF requests_get(r).kind = "raise"
    THEN ErrorPrints("cli", requests_get(r), "none", ProbeHandlerClass)
    ELSE <<>>

\* where get_current_exposure goes with the outcome `out` of a try block:
\* it returns the reading, calls _get_mock_data, or lets the exception out
Continue(out, next_pc) ==
    IF out.kind = "raise"
    THEN /\ pc' = "naaim_done"
         /\ naaim_raised' = out.exc
         /\ UNCHANGED naaim_data
    ELSE IF out.value = UseMock
    THEN /\ pc' = "naaim_mock"
         /\ UNCHANGED <<naaim_data, naaim_raised>>
    ELSE IF out.value = None
    THEN /\ pc' = next_pc
         /\ UNCHANGED <<naaim_data, naaim_raised>>
    ELSE /\ pc' = "naaim_done"
         /\ naaim_data' = out.value
         /\ UNCHANGED naaim_raised

\* test.py 179-195: the first GET of the CLI's get_current_exposure.  Both
\* branches of the status test call _get_from_naaim_website.
NaaimProbe(Responses) ==
    /\ pc = "naaim_call"
    /\ program = "cli"
    /\ \E r \in Responses :
          /\ requests' = Append(requests, NaaimProbeUrl)
          /\ naaim_probe' = r
          /\ display' = display \o ProbePrints(r)
          /\ Continue(Handle(IF requests_get(r).kind = "raise"
                             THEN requests_get(r) ELSE Return(None),
                             ProbeHandlerClass),
                      "naaim_fetch")
    /\ UNCHANGED <<program, rating_vars, naaim_response, cnn_vars,
                   detail_vars, options, uncaught>>

\* test.py 197-265 (_get_from_naaim_website) and app.py 92-132
\* (get_current_exposure): the GET of the index page and the extraction
NaaimFetch(Responses) ==
    /\ \/ pc = "naaim_fetch"
       \/ pc = "naaim_call" /\ program = "dash"
    /\ \E r \in Responses :
          /\ requests' = Append(requests, NaaimPageUrl)
          /\ naaim_response' = r
          /\ display' = display \o PagePrints(program, r)
          /\ Continue(ExposureOutcome(program, r), "naaim_done")
    /\ UNCHANGED <<program, rating_vars, naaim_probe, cnn_vars, detail_vars,
                   options, uncaught>>

\* test.py 267-281 and app.py 134-143: _get_mock_data
NaaimMock ==
    /\ pc = "naaim_mock"
    /\ \E h \in UniformDraws : \E tenths \in Round1(h) :
          naaim_data' = get_mock_data(program, tenths)
    /\ pc' = "naaim_done"
    /\ UNCHANGED <<program, rating_vars, requests, naaim_probe,
                   naaim_response, naaim_raised, cnn_vars, detail_vars,
                   options, display, uncaught>>

(***************************************************************************)
(* The inputs of the fetcher: page texts and responses.                    *)
(***************************************************************************)
\* PhraseText holds the words "Exposure" and "Index" of the prefixed patterns
Fragments ==
    { <<"1", "2", "5", "0">>, <<"2", "0", "0">>, <<"5">>, <<"0">>, <<".">>, <<"%">>,
      <<" ">>, IndexWord, PhraseText }

RECURSIVE Concat(_)
Concat(fs) == IF fs = <<>> THEN <<>> ELSE Head(fs) \o Concat(Tail(fs))

\* the text of the specification's example: "Index value: 72.5%"
SampleText ==
    <<"I", "n", "d", "e", "x", " ", "v", "a", "l", "u", "e", ":", " ",
      "7", "2", ".", "5", "%">>

PageTexts ==
    { Concat(fs) : fs \in UNION { [1..k -> Fragments] : k \in 0..MaxLen } }
        \cup {SampleText}

Pages ==
    { HtmlPage(d, t) : d \in BOOLEAN, t \in PageTexts } \cup {Unparsable}

EmptyPage == HtmlPage(FALSE, <<>>)

NetworkFailures == {NetworkFailure("Timeout"), NetworkFailure("ConnectionError")}

ProbeResponses ==
    NetworkFailures \cup {HttpResponse(200, EmptyPage), HttpResponse(404, EmptyPage)}

PageResponses ==
    NetworkFailures
        \cup {HttpResponse(404, EmptyPage), HttpResponse(503, EmptyPage)}
        \cup {HttpResponse(200, p) : p \in Pages}

(***************************************************************************)
(* SpecNaaim: one call of get_current_exposure, in either program.         *)
(***************************************************************************)
RatingIdle == exposure_value = None /\ rating = <<>>

\* nothing fetched from CNN yet
CnnStart ==
    /\ cnn_response = None
    /\ cnn_data = None
    /\ cnn_raised = NoException
    /\ detail_response = None
    /\ indicators = None
    /\ history_response = None
    /\ historical_data = None

\* nothing written yet, main running
MainStart ==
    /\ display = <<>>
    /\ uncaught = NoException

\* test.py 333-336: both flags are store_true, off unless given;
\* app.py 190-191: both checkboxes start unchecked
Defaults(prog) ==
    IF prog = "cli" THEN [verbose |-> FALSE, naaim |-> FALSE]
    ELSE [auto_refresh |-> FALSE, show_details |-> FALSE]

NaaimStart ==
    /\ requests = <<>>
    /\ naaim_probe = None
    /\ naaim_response = None
    /\ naaim_data = None
    /\ naaim_raised = NoException

InitNaaim ==
    /\ pc = "naaim_call"
    /\ program \in {"cli", "dash"}
    /\ RatingIdle
    /\ NaaimStart
    /\ CnnStart
    /\ MainStart
    /\ options = Defaults(program)

NextNaaim ==
    \/ NaaimProbe(ProbeResponses)
    \/ NaaimFetch(PageResponses)
    \/ NaaimMock

SpecNaaim == InitNaaim /\ [][NextNaaim]_vars

(***************************************************************************)
(* Claims about the percentage-index fetcher (SpecNaaim).                  *)
(***************************************************************************)
HasKey(data, key) == key \in DOMAIN data

\* the call has returned or has let an exception escape
NaaimDone == pc = "naaim_done"

\* the index page was retrieved with status 200 and parsed
PageParsed ==
    /\ naaim_response # None
    /\ naaim_response.kind = "response"
    /\ naaim_response.status_code = 200
    /\ naaim_response.body.kind = "html"

\* the target element is present / its text as the extraction sees it
DivPresent == PageParsed /\ naaim_response.body.has_div

DivText == Strip(naaim_response.body.text)

\* C3: get_current_exposure never lets a failure reach its caller: whatever
\* the requests and the page give, it returns a reading with a numeric
\* 'exposure' field and raises nothing.
C3_NeverPropagates ==
    /\ naaim_raised = NoException
    /\ NaaimDone =>
          /\ naaim_data # None
          /\ HasKey(naaim_data, "exposure")
          /\ IsNumber(naaim_data.exposure)

\* C3 witness: the dashboard's fetcher has returned after the parser
\* rejected the page
C3_Witness ==
    /\ NaaimDone
    /\ program = "dash"
    /\ naaim_response = HttpResponse(200, Unparsable)
    /\ HasKey(naaim_data, "note")

\* the indices of the matches whose value lies in [0, 200]
InRangeMatches(ms) ==
    { k \in 1..Len(ms) :
        ParseFloat(ms[k]) # ValueError /\ InRange(ParseFloat(ms[k])) }

\* the patterns, by index, that have a match in range
PatternsInRange(t) ==
    LET pm == PatternMatches(t)
    IN  { p \in 1..4 : InRangeMatches(pm[p]) # {} }

\* the leftmost in-range match of the earliest pattern that has one
EarliestLeftmost(t) ==
    LET pm == PatternMatches(t)
        ms == pm[SetMin({ p \in 1..4 : InRangeMatches(pm[p]) # {} })]
    IN  ParseFloat(ms[SetMin(InRangeMatches(ms))])

\* C4: with the target element present, the value returned is the leftmost
\* match in [0, 200] of the earliest of the four patterns (plain decimal,
\* 'Index' prefixed, 1-3 digit decimal, 'exposure' prefixed) that has one.
C4_FirstPatternFirstMatch ==
    (NaaimDone /\ DivPresent /\ PatternsInRange(DivText) # {}) =>
        /\ HasKey(naaim_data, "source")
        /\ naaim_data.source = SourceOf[program]
        /\ naaim_data.raw_text = DivText
        /\ naaim_data.exposure = EarliestLeftmost(DivText)

\* C4 witness: the first two patterns have no match in range, and the value
\* returned is the third pattern's second match
C4_Witness ==
    /\ NaaimDone
    /\ DivPresent
    /\ SetMin(PatternsInRange(DivText) \cup {5}) = 3
    /\ SetMin(InRangeMatches(PatternMatches(DivText)[3]) \cup {9}) = 2
    /\ HasKey(naaim_data, "source")

\* C5 (as claimed): every reading that carries a 'source' tag has an
\* exposure in [0, 200]; a candidate outside that range is never returned.
C5_SourceReadingInRange ==
    (NaaimDone /\ naaim_data # None /\ HasKey(naaim_data, "source")) =>
        InRange(naaim_data.exposure)

\* exposure is a one-decimal value in [30, 110] tagged as demo data
IsSynthetic(data) ==
    /\ HasKey(data, "note")
    /\ ~HasKey(data, "source")
    /\ data.note = NoteOf[program]
    /\ Len(data.exposure.fp) <= 1
    /\ Leq(Int2Dec(30), data.exposure)
    /\ Leq(data.exposure, Int2Dec(110))

\* the target element is absent, or present with no candidate in [0, 200]
NoCandidate ==
    /\ PageParsed
    /\ ~naaim_response.body.has_div \/ PatternsInRange(DivText) = {}

\* C6 (as claimed): with the target element absent, or present without a
\* candidate in [0, 200], the fetcher returns the synthetic reading.
C6_FallsBackToSynthetic ==
    (NaaimDone /\ NoCandidate) => IsSynthetic(naaim_data)

\* C6 (amended): the same, unless the CLI's search of the whole page for
\* "This week's NAAIM Exposure Index number is <number>" has a match (then
\* the CLI returns that number with a 'source' tag).
C6_FallsBackToSyntheticAmended ==
    (NaaimDone /\ NoCandidate) =>
        IF program = "cli" /\ SearchPhrase(naaim_response.body.text) # None
        THEN /\ HasKey(naaim_data, "source")
             /\ naaim_data.source = SourceFallback
             /\ ~HasKey(naaim_data, "note")
        ELSE IsSynthetic(naaim_data)

\* C6 witness: the element is present, holds a number outside [0, 200] only,
\* and the synthetic reading was returned
C6_Witness ==
    /\ NaaimDone
    /\ DivPresent
    /\ PatternMatches(DivText)[1] # <<>>
    /\ PatternsInRange(DivText) = {}
    /\ IsSynthetic(naaim_data)

\* s is a decimal: digits, then possibly a point and further digits
IsDecimalToken(s) ==
    /\ s # <<>>
    /\ IsDigit(s[1])
    /\ \A i \in 1..Len(s) : IsDigit(s[i]) \/ s[i] = "."
    /\ Cardinality({i \in 1..Len(s) : s[i] = "."}) <= 1

\* the leftmost numeric token of t: the longest decimal at the first digit
LeftmostToken(t) ==
    LET i == SetMin({k \in 1..Len(t) : IsDigit(t[k])})
        ends == { j \in i..Len(t) : IsDecimalToken(SubSeq(t, i, j)) }
    IN  SubSeq(t, i, CHOOSE j \in ends : \A e \in ends : e <= j)

HasDigit(t) == \E k \in 1..Len(t) : IsDigit(t[k])

\* C7: for the element text "Index value: 72.5%" the exposure returned is
\* 72.5, and whenever the leftmost numeric token of the element text is a
\* decimal in [0, 200] the exposure returned is that token's value, fraction
\* included.
C7_LeftmostTokenIntact ==
    (NaaimDone /\ DivPresent) =>
        /\ DivText = SampleText =>
              naaim_data.exposure = MkNum(FALSE, <<7, 2>>, <<5>>)
        /\ (HasDigit(DivText) /\ InRange(ParseFloat(LeftmostToken(DivText)))) =>
              naaim_data.exposure = ParseFloat(LeftmostToken(DivText))

\* C7 witness: the element text was "Index value: 72.5%" and 72.5 returned
C7_Witness ==
    /\ NaaimDone
    /\ DivPresent
    /\ DivText = SampleText
    /\ naaim_data.exposure = MkNum(FALSE, <<7, 2>>, <<5>>)

(***************************************************************************)
(* SpecRating: the classifier applied to one exposure value.               *)
(***************************************************************************)
\* the inputs: every whole number of the range, its neighbours one tenth
\* below and above, and the midpoint to the next one
RatingInputs ==
    { Tenths(n) : n \in { m \in (0 - 10 * BelowUnits) .. (2000 + 10 * AboveUnits) :
                             m % 10 \in {0, 1, 5, 9} } }

InitRating ==
    /\ pc = "rating_call"
    /\ program = "cli"
    /\ exposure_value \in RatingInputs
    /\ rating = <<>>
    /\ NaaimStart
    /\ CnnStart
    /\ MainStart
    /\ options = Defaults(program)

CallRating ==
    /\ pc = "rating_call"
    /\ rating' = get_sentiment_rating(exposure_value)
    /\ pc' = "rating_done"
    /\ UNCHANGED <<program, exposure_value, requests, naaim_vars, cnn_vars,
                   detail_vars, options, display, uncaught>>

NextRating == CallRating

SpecRating == InitRating /\ [][NextRating]_vars

(***************************************************************************)
(* Claims about the classifier.                                            *)
(***************************************************************************)
\* the five bands in ascending order of sentiment
Bands ==
    <<"extreme_bearish", "bearish", "neutral", "bullish", "extreme_bullish">>

BandIndex(id) == CHOOSE i \in 1..Len(Bands) : Bands[i] = id

\* what each localized label says, as a band
LabelBand ==
    [l \in {"kyokudo no yowaki", "yowaki", "churitsu", "tsuyoki",
            "kyokudo no tsuyoki"} |->
        CASE l = "kyokudo no yowaki" -> "extreme_bearish"
          [] l = "yowaki" -> "bearish"
          [] l = "churitsu" -> "neutral"
          [] l = "tsuyoki" -> "bullish"
          [] l = "kyokudo no tsuyoki" -> "extreme_bullish"]

BandSet == {Bands[i] : i \in 1..Len(Bands)}

\* C1: every exposure value, also below 0 and above 200, is rated as exactly
\* one of the five bands, and the rating is monotonic: a value that is not
\* larger never gets a higher band.
C1_RatingTotalMonotonic ==
    pc = "rating_done" =>
        /\ Cardinality({i \in 1..Len(Bands) : Bands[i] = rating[2]}) = 1
        /\ \A w \in RatingInputs :
              LET bw == get_sentiment_rating(w)[2] IN
              /\ bw \in BandSet
              /\ IF Less(exposure_value, w)
                 THEN BandIndex(rating[2]) <= BandIndex(bw)
                 ELSE BandIndex(bw) <= BandIndex(rating[2])

\* C1 witness: a value above 200 has been rated (and one below 0 exists)
C1_Witness ==
    /\ pc = "rating_done"
    /\ Less(Num200, exposure_value)
    /\ rating[2] = "extreme_bullish"
    /\ \E w \in RatingInputs : Less(w, Num0)

\* the band the half-open intervals of the specification give
IntervalBand(v) ==
    IF Less(v, Num40) THEN "extreme_bearish"
    ELSE IF Leq(Num40, v) /\ Less(v, Num60) THEN "bearish"
    ELSE IF Leq(Num60, v) /\ Less(v, Num80) THEN "neutral"
    ELSE IF Leq(Num80, v) /\ Less(v, Num95) THEN "bullish"
    ELSE "extreme_bullish"

\* C2: the band boundaries are exact and half-open (39.9 extreme_bearish,
\* 40.0 and 59.9 bearish, 60.0 neutral, 94.9 bullish, 95.0 extreme_bullish),
\* and the localized label names the same band as the canonical identifier.
C2_BoundariesExact ==
    pc = "rating_done" =>
        /\ rating[2] = IntervalBand(exposure_value)
        /\ LabelBand[rating[1]] = rating[2]
        /\ exposure_value = Tenths(399) => rating[2] = "extreme_bearish"
        /\ exposure_value = Tenths(400) => rating[2] = "bearish"
        /\ exposure_value = Tenths(599) => rating[2] = "bearish"
        /\ exposure_value = Tenths(600) => rating[2] = "neutral"
        /\ exposure_value = Tenths(949) => rating[2] = "bullish"
        /\ exposure_value = Tenths(950) => rating[2] = "extreme_bullish"

\* C2 witness: the boundary value 60.0 has been rated neutral
C2_Witness ==
    /\ pc = "rating_done"
    /\ exposure_value = Tenths(600)
    /\ rating = <<"churitsu", "neutral">>

(***************************************************************************)
(* CNNFearGreedScraper: the composite-index fetcher.                       *)
(* JSON values: a number is an exact decimal, a string is [str |-> s],     *)
(* null is None, an object is [obj |-> f] with f a function on its keys,   *)
(* an array is [list |-> s].                                               *)
(***************************************************************************)
CnnApiUrl == "https://production.dataviz.cnn.io/index/fearandgreed/graphdata"

JStr(s) == [str |-> s]

JObj(f) == [obj |-> f]

JList(s) == [list |-> s]

\* the dict {}
EmptyDict == [k \in {} |-> None]

\* the value has the method get: it is a dict
IsDict(v) == DOMAIN v = {"obj"}

\* a body that is a JSON document
JsonBody(v) == [kind |-> "json", value |-> v]

\* a body that is no JSON document; raises is the class of the exception the
\* installed requests library raises for it: json.JSONDecodeError, or its own
\* JSONDecodeError, which is a RequestException too
Malformed(raises) == [kind |-> "malformed", raises |-> raises]

\* response.json()
response_json(r) ==
    IF r.body.kind = "json" THEN Return(r.body.value)
    ELSE Raise(r.body.raises)

\* dict.get(key, default)
dict_get(d, key, default) == IF key \in DOMAIN d THEN d[key] ELSE default

NumericFields ==
    {"score", "previous_close", "previous_1_week", "previous_1_month",
     "previous_1_year"}

TextFields == {"rating", "timestamp"}

Fields == NumericFields \cup TextFields

\* a plausible slip: every default is 0
FieldDefault_zero(field) == Num0

\* the second argument of fear_greed.get(field, ...)
FieldDefault(field) == IF field \in TextFields THEN JStr("") ELSE Num0

\* `result = {...}`, for fear_greed a dict
CnnResult(fear_greed) ==
    [field \in Fields \cup {"last_updated"} |->
        IF field = "last_updated" THEN JStr(Now)
        ELSE dict_get(fear_greed, field, FieldDefault(field))]

\* test.py 31-44, app.py 33-46: `fear_greed.get(...)` fails on a value that
\* is no dict
CnnReading(fear_greed) ==
    IF IsDict(fear_greed) THEN Return(CnnResult(fear_greed.obj))
    ELSE Raise("AttributeError")

\* `fear_greed = data.get('fear_and_greed', {})` and the reading made of it
CnnExtract(data) ==
    IF IsDict(data)
    THEN CnnReading(dict_get(data.obj, "fear_and_greed", JObj(EmptyDict)))
    ELSE Raise("AttributeError")

\* the try block of get_current_index
CnnTry(r) ==
    IF requests_get(r).kind = "raise" THEN requests_get(r)
    ELSE IF raise_for_status(r).kind = "raise" THEN raise_for_status(r)
    ELSE IF response_json(r).kind = "raise" THEN response_json(r)
    ELSE CnnExtract(response_json(r).value)

\* a plausible slip: only the request errors are handled
CnnHandlers_request(prog) ==
    << [cls |-> "RequestException", label |-> "API request error"] >>

\* the except clauses of get_current_index, in order, with what each reports
CnnHandlers(prog) ==
    IF prog = "cli"
    THEN << [cls |-> "RequestException", label |-> "API request error"],
            [cls |-> "JSONDecodeError", label |-> "JSON decode error"],
            [cls |-> "Exception", label |-> "yoki shinai error"] >>
    ELSE << [cls |-> "Exception",
             label |-> "CNN Fear & Greed Index shutoku error"] >>

\* the except clauses that match the exception
Matching(handlers, exc) ==
    SelectSeq(handlers, LAMBDA h : IsInstance(exc, h.cls))

\* what get_current_index does with the outcome of its try block: the first
\* matching except clause reports the exception and returns None
CnnOutcome(out, handlers) ==
    IF out.kind # "raise"
    THEN [data |-> out.value, raised |-> NoException, shown |-> <<>>]
    ELSE IF Matching(handlers, out.exc) = <<>>
    THEN [data |-> None, raised |-> out.exc, shown |-> <<>>]
    ELSE [data |-> None, raised |-> NoException,
          shown |-> <<Shown("cnn_error",
                            [label |-> Head(Matching(handlers, out.exc)).label,
                             exc |-> out.exc])>>]

\* one field of the outcome reaches each variable
CnnReturn(outcome) ==
    /\ cnn_data' = outcome.data
    /\ cnn_raised' = outcome.raised
    /\ display' = display \o outcome.shown

\* test.py 20-54, app.py 27-50: get_current_index
CnnFetch(Responses) ==
    /\ pc = "cnn_call"
    /\ \E r \in Responses :
          /\ requests' = Append(requests, CnnApiUrl)
          /\ cnn_response' = r
          /\ CnnReturn(CnnOutcome(CnnTry(r), CnnHandlers(program)))
    /\ pc' = "cnn_done"
    /\ UNCHANGED <<program, rating_vars, naaim_vars, detail_vars, options,
                   uncaught>>

(***************************************************************************)
(* The inputs of get_current_index.                                        *)
(***************************************************************************)
\* a value the service sends for each field
FieldSample ==
    [field \in Fields |->
        CASE field = "score" -> Tenths(553)
          [] field = "rating" -> JStr("greed")
          [] field = "timestamp" -> JStr("2024-01-05T23:59:52+00:00")
          [] field = "previous_close" -> Tenths(541)
          [] field = "previous_1_week" -> Int2Dec(48)
          [] field = "previous_1_month" -> Tenths(627)
          [] field = "previous_1_year" -> Tenths(0 - 5)]

\* the dict in which each field is absent, null or has its sample value
FearGreedDict(choice) ==
    [field \in {f \in Fields : choice[f] # "absent"} |->
        IF choice[field] = "null" THEN None ELSE FieldSample[field]]

FearGreedDicts ==
    { FearGreedDict(choice) : choice \in [Fields -> {"absent", "null", "sample"}] }

\* the payloads: an object with or without 'fear_and_greed', and documents
\* of another shape
CnnPayloads ==
    { JObj([k \in {"fear_and_greed"} |-> JObj(d)]) : d \in FearGreedDicts }
        \cup { JObj(EmptyDict),
               JObj([k \in {"fear_and_greed"} |-> None]),
               JObj([k \in {"fear_and_greed"} |-> JList(<<>>)]),
               JList(<<>>), None, JStr("maintenance") }

JsonErrors == {"JSONDecodeError", "RequestsJSONDecodeError"}

CnnResponses ==
    NetworkFailures
        \cup {HttpResponse(404, JsonBody(JObj(EmptyDict))),
             HttpResponse(500, Malformed("JSONDecodeError"))}
        \cup {HttpResponse(200, Malformed(e)) : e \in JsonErrors}
        \cup {HttpResponse(200, JsonBody(p)) : p \in CnnPayloads}

(***************************************************************************)
(* SpecCnn: one call of get_current_index, in either program.              *)
(***************************************************************************)
InitCnn ==
    /\ pc = "cnn_call"
    /\ program \in {"cli", "dash"}
    /\ RatingIdle
    /\ NaaimStart
    /\ CnnStart
    /\ MainStart
    /\ options = Defaults(program)

NextCnn == CnnFetch(CnnResponses)

SpecCnn == InitCnn /\ [][NextCnn]_vars

(***************************************************************************)
(* Claims about get_current_index, checked under SpecCnn.                  *)
(***************************************************************************)
CnnDone == pc = "cnn_done"

\* the request was answered with status 200 and a JSON object in which
\* 'fear_and_greed' is missing or is an object
PartialPayload ==
    /\ cnn_response.kind = "response"
    /\ cnn_response.status_code = 200
    /\ cnn_response.body.kind = "json"
    /\ DOMAIN cnn_response.body.value = {"obj"}
    /\ \/ "fear_and_greed" \notin DOMAIN cnn_response.body.value.obj
       \/ DOMAIN cnn_response.body.value.obj["fear_and_greed"] = {"obj"}

\* the fields the payload holds
SentFields ==
    IF "fear_and_greed" \in DOMAIN cnn_response.body.value.obj
    THEN cnn_response.body.value.obj["fear_and_greed"].obj
    ELSE [k \in {} |-> None]

\* C8: for a retrieved JSON payload in which any subset of the seven fields,
\* or the 'fear_and_greed' object itself, is missing, get_current_index
\* returns a reading with all seven keys: a missing numeric field is 0, a
\* missing text field is the empty string, a present field is passed through
\* unchanged.
C8_DefaultsOnPartialData ==
    (CnnDone /\ PartialPayload) =>
        /\ cnn_raised = NoException
        /\ cnn_data # None
        /\ { "score", "rating", "timestamp", "previous_close",
             "previous_1_week", "previous_1_month", "previous_1_year" }
               \subseteq DOMAIN cnn_data
        /\ \A f \in {"score", "previous_close", "previous_1_week",
                     "previous_1_month", "previous_1_year"} :
              cnn_data[f] = IF f \in DOMAIN SentFields THEN SentFields[f]
                            ELSE Int2Dec(0)
        /\ \A f \in {"rating", "timestamp"} :
              cnn_data[f] = IF f \in DOMAIN SentFields THEN SentFields[f]
                            ELSE [str |-> ""]

\* C8 witness: the payload of the specification's example and more: score is
\* sent, previous_close and rating are not
C8_Witness ==
    /\ CnnDone
    /\ PartialPayload
    /\ DOMAIN SentFields = {"score", "timestamp", "previous_1_year"}
    /\ cnn_data["score"] = Tenths(553)
    /\ cnn_data["previous_close"] = Int2Dec(0)
    /\ cnn_data["rating"] = [str |-> ""]

\* the request failed: no connection, a timeout, an HTTP error status, or a
\* body that is no JSON
CnnFailure ==
    \/ cnn_response.kind = "exception"
    \/ /\ cnn_response.kind = "response"
       /\ \/ cnn_response.status_code >= 400
          \/ cnn_response.body.kind = "malformed"

\* C9, as stated: on network failure, timeout, HTTP error status or malformed
\* JSON, get_current_index fails with a RetrievalError raised to its caller,
\* returns no reading, and has made exactly one request.
C9_RaisesRetrievalError ==
    (CnnDone /\ CnnFailure) =>
        /\ cnn_raised = "RetrievalError"
        /\ cnn_data = None
        /\ requests = <<CnnApiUrl>>

\* C9, amended: on those failures get_current_index raises nothing: it
\* reports the error and returns the absent reading None, no reading and no
\* partially filled one, and has made exactly one request.
C9_ReturnsAbsentReading ==
    (CnnDone /\ CnnFailure) =>
        /\ cnn_raised = NoException
        /\ cnn_data = None
        /\ requests = <<CnnApiUrl>>
        /\ Len(display) = 1
        /\ display[1].kind = "cnn_error"

\* C9 witness: the request timed out and the call returned None
C9_Witness ==
    /\ CnnDone
    /\ cnn_response = NetworkFailure("Timeout")
    /\ cnn_data = None
    /\ cnn_raised = NoException
    /\ Len(requests) = 1

(***************************************************************************)
(* The presenters: format_output of both scrapers (src/test.py) and        *)
(* create_gauge_chart (src/app.py).                                        *)
(***************************************************************************)
\* `not data`: None and the empty dict are false
Falsy(data) == data = None \/ data = EmptyDict

IsStr(v) == DOMAIN v = {"str"}

\* dicts and lists cannot be dict keys
Unhashable(v) == DOMAIN v = {"obj"} \/ DOMAIN v = {"list"}

\* f"{x:.1f}" for a number x: its text with one decimal
Format1f(x) == [fmt |-> ".1f", of |-> x]

\* the exception of f"{v:.1f}" for a value v that is no number
FormatError(v) == IF IsStr(v) THEN "ValueError" ELSE "TypeError"

\* the values of vs that f"{...:.1f}" cannot format
Unformattable(vs) == SelectSeq(vs, LAMBDA v : ~IsNumber(v))

\* test.py 138-144, app.py 220-226: the localized names of the ratings
RatingNames ==
    ("extreme fear" :> "kyokudo no kyofu") @@ ("fear" :> "kyofu")
        @@ ("neutral" :> "churitsu") @@ ("greed" :> "goyoku")
        @@ ("extreme greed" :> "kyokudo no goyoku")

\* {...}.get(rating, rating), for a rating that can be a key
rating_jp(name) ==
    IF IsStr(name) /\ name.str \in DOMAIN RatingNames
    THEN JStr(RatingNames[name.str])
    ELSE name

\* the message for an absent composite reading
CnnUnavailable == [text |-> "data ga shutoku dekimasen deshita"]

\* `if not data:` of both format_output methods
FormatsAbsent(data) == Falsy(data)

\* the five values the verbose report formats, in order
CnnFormatted(data) ==
    << data["score"], data["previous_close"], data["previous_1_week"],
       data["previous_1_month"], data["previous_1_year"] >>

\* test.py 147-162: the verbose report
CnnReport(data) ==
    [title |-> "CNN Fear & Greed Index",
     score |-> Format1f(data["score"]),
     rating_jp |-> rating_jp(data["rating"]),
     rating |-> data["rating"],
     previous_close |-> Format1f(data["previous_close"]),
     previous_1_week |-> Format1f(data["previous_1_week"]),
     previous_1_month |-> Format1f(data["previous_1_month"]),
     previous_1_year |-> Format1f(data["previous_1_year"]),
     last_updated |-> data["last_updated"]]

\* test.py 127-162: CNNFearGreedScraper.format_output
CNNFearGreedScraper_format_output(data, verbose) ==
    IF FormatsAbsent(data) THEN Return(CnnUnavailable)
    ELSE IF Unhashable(data["rating"]) THEN Raise("TypeError")
    ELSE IF ~verbose
    THEN Return([score |-> data["score"],
                 rating_jp |-> rating_jp(data["rating"])])
    ELSE IF Unformattable(CnnFormatted(data)) # <<>>
    THEN Raise(FormatError(Head(Unformattable(CnnFormatted(data)))))
    ELSE Return(CnnReport(data))

\* the message for an absent exposure reading
NaaimUnavailable == [text |-> "NAAIM data ga shutoku dekimasen deshita"]

\* one line of a report
Line(label, value) == [label |-> label, value |-> value]

\* a report that keeps the data-source line and leaves out the line for 'note'
NaaimReport_sourceonly(data, sentiment) ==
    << Line("title", [text |-> "NAAIM Exposure Index"]),
       Line("exposure", Format1f(data.exposure)),
       Line("hyoka", [jp |-> sentiment[1], en |-> sentiment[2]]),
       Line("data hizuke", [text |-> data.date]),
       Line("shutoku jikoku", [text |-> data.last_updated]) >>
        \o (IF "source" \in DOMAIN data
            THEN <<Line("data source", [text |-> data.source])>> ELSE <<>>)

\* test.py 311-326: the verbose report, with the lines for 'source' and 'note'
NaaimReport(data, sentiment) ==
    << Line("title", [text |-> "NAAIM Exposure Index"]),
       Line("exposure", Format1f(data.exposure)),
       Line("hyoka", [jp |-> sentiment[1], en |-> sentiment[2]]),
       Line("data hizuke", [text |-> data.date]),
       Line("shutoku jikoku", [text |-> data.last_updated]) >>
        \o (IF "source" \in DOMAIN data
            THEN <<Line("data source", [text |-> data.source])>> ELSE <<>>)
        \o (IF "note" \in DOMAIN data
            THEN <<Line("chui", [text |-> data.note])>> ELSE <<>>)

\* the lines after the test for an absent reading
NaaimFormat(data, sentiment, verbose) ==
    IF ~verbose
    THEN Return([exposure |-> Format1f(data.exposure),
                 sentiment_jp |-> sentiment[1]])
    ELSE Return([lines |-> NaaimReport(data, sentiment)])

\* test.py 298-326: NAAIMScraper.format_output
NAAIMScraper_format_output(data, verbose) ==
    IF FormatsAbsent(data) THEN Return(NaaimUnavailable)
    ELSE NaaimFormat(data, get_sentiment_rating(data.exposure), verbose)

\* app.py 157-182: create_gauge_chart
create_gauge_chart(value, title, max_val) ==
    [mode |-> "gauge+number+delta",
     value |-> value,
     title |-> title,
     axis_range |-> <<None, Int2Dec(max_val)>>,
     steps |-> << [range |-> <<0, 25>>, color |-> "red"],
                  [range |-> <<25, 50>>, color |-> "orange"],
                  [range |-> <<50, 75>>, color |-> "yellow"],
                  [range |-> <<75, 100>>, color |-> "green"] >>,
     threshold |-> 90]

(***************************************************************************)
(* CNNFearGreedScraper: the secondary operations.                          *)
(***************************************************************************)
\* test.py 101-109, app.py 60-68: indicator_keys, in order
IndicatorKeys ==
    << "market_momentum_sp500", "stock_price_strength", "stock_price_breadth",
       "put_call_options", "market_volatility_vix", "junk_bond_demand",
       "safe_haven_demand" >>

\* the indicator keys for which `key in data` holds, for data a dict
PresentKeys(d) == SelectSeq(IndicatorKeys, LAMBDA key : key \in DOMAIN d)

\* a plausible slip: .get(field) without the default
IndicatorEntry_nodefault(indicator_data) ==
    [field \in {"score", "rating", "timestamp"} |->
        dict_get(indicator_data, field, None)]

\* the dict made of indicator_data
IndicatorEntry(indicator_data) ==
    [field \in {"score", "rating", "timestamp"} |->
        dict_get(indicator_data, field, FieldDefault(field))]

\* the loop over indicator_keys, for data a dict: `indicator_data.get` fails
\* on the first present key whose value is no dict
IndicatorsOf(d) ==
    IF SelectSeq(PresentKeys(d), LAMBDA key : ~IsDict(d[key])) # <<>>
    THEN Raise("AttributeError")
    ELSE Return([key \in {PresentKeys(d)[i] : i \in 1..Len(PresentKeys(d))} |->
                    IndicatorEntry(d[key].obj)])

\* `key in data` holds for no key in a list or a text without the key, and
\* fails on null and on a number
DetailExtract(data) ==
    IF IsDict(data) THEN IndicatorsOf(data.obj)
    ELSE IF DOMAIN data = {"list"} \/ IsStr(data) THEN Return(EmptyDict)
    ELSE Raise("TypeError")

\* the try block of get_detailed_indicators
DetailTry(r) ==
    IF requests_get(r).kind = "raise" THEN requests_get(r)
    ELSE IF raise_for_status(r).kind = "raise" THEN raise_for_status(r)
    ELSE IF response_json(r).kind = "raise" THEN response_json(r)
    ELSE DetailExtract(response_json(r).value)

\* test.py 123-125, app.py 81-83: the only except clause
DetailHandlers == << [cls |-> "Exception", label |-> "shosai shihyo shutoku error"] >>

\* the returned value and what the except clause wrote
DetailReturn(outcome) ==
    /\ indicators' = outcome.data
    /\ uncaught' = outcome.raised
    /\ display' = display \o outcome.shown

\* test.py 89-125, app.py 52-83: get_detailed_indicators
DetailFetch(Responses) ==
    /\ pc = "detail_call"
    /\ \E r \in Responses :
          /\ requests' = Append(requests, CnnApiUrl)
          /\ detail_response' = r
          /\ DetailReturn(CnnOutcome(DetailTry(r), DetailHandlers))
    /\ pc' = "detail_done"
    /\ UNCHANGED <<program, rating_vars, naaim_vars, cnn_vars, history_response,
                   historical_data, options>>

\* pd.to_datetime(x, unit='ms'): the time x milliseconds after the epoch
to_datetime(x) == IF x = None THEN None ELSE [epoch_ms |-> x]

\* what building the row of one item raises, NoException when nothing
RowError(item) ==
    IF ~IsDict(item) THEN "TypeError"
    ELSE IF "x" \notin DOMAIN item.obj THEN "KeyError"
    ELSE IF ~(IsNumber(item.obj["x"]) \/ item.obj["x"] = None) THEN "ValueError"
    ELSE IF "y" \notin DOMAIN item.obj THEN "KeyError"
    ELSE IF "rating" \notin DOMAIN item.obj THEN "KeyError"
    ELSE NoException

\* test.py 76-80: the row of one item
Row(item) ==
    [date |-> to_datetime(item.obj["x"]), score |-> item.obj["y"],
     rating |-> item.obj["rating"]]

\* test.py 74-83: the rows of the list `historical`, as a DataFrame
DataFrame(historical) ==
    IF SelectSeq(historical, LAMBDA item : RowError(item) # NoException) # <<>>
    THEN Raise(RowError(Head(SelectSeq(historical,
                                       LAMBDA item : RowError(item) # NoException))))
    ELSE Return([i \in 1..Len(historical) |-> Row(historical[i])])

\* `for item in historical` needs a list
HistoryRows(historical) ==
    IF DOMAIN historical = {"list"} THEN DataFrame(historical.list)
    ELSE Raise("TypeError")

\* `.get('data', [])` of the value of 'fear_and_greed_historical'
HistoryList(h) ==
    IF IsDict(h) THEN HistoryRows(dict_get(h.obj, "data", JList(<<>>)))
    ELSE Raise("AttributeError")

\* test.py 68-83
HistoryExtract(data) ==
    IF IsDict(data)
    THEN HistoryList(dict_get(data.obj, "fear_and_greed_historical",
                              JObj(EmptyDict)))
    ELSE Raise("AttributeError")

\* the try block of get_historical_data
HistoryTry(r) ==
    IF requests_get(r).kind = "raise" THEN requests_get(r)
    ELSE IF raise_for_status(r).kind = "raise" THEN raise_for_status(r)
    ELSE IF response_json(r).kind = "raise" THEN response_json(r)
    ELSE HistoryExtract(response_json(r).value)

\* test.py 85-87: the only except clause
HistoryHandlers == << [cls |-> "Exception", label |-> "rireki data shutoku error"] >>

HistoryReturn(outcome) ==
    /\ historical_data' = outcome.data
    /\ uncaught' = outcome.raised
    /\ display' = display \o outcome.shown

\* test.py 56-87: get_historical_data, called without start_date
HistoryFetch(Responses) ==
    /\ pc = "history_call"
    /\ \E r \in Responses :
          /\ requests' = Append(requests, CnnApiUrl)
          /\ history_response' = r
          /\ HistoryReturn(CnnOutcome(HistoryTry(r), HistoryHandlers))
    /\ pc' = "history_done"
    /\ UNCHANGED <<program, rating_vars, naaim_vars, cnn_vars, detail_response,
                   indicators, options>>

(***************************************************************************)
(* main of both programs.  A run of main is cut at its fetches; between    *)
(* two fetches it writes a sequence of things, each of which can raise and *)
(* so end the run.                                                         *)
(***************************************************************************)
\* a step that writes item
Step(item) == [exc |-> NoException, item |-> item]

\* a step that raises e
Fail(e) == [exc |-> e]

\* a step that formats v with .1f into an item
FormatStep(v, item) == IF IsNumber(v) THEN Step(item) ELSE Fail(FormatError(v))

\* the position of the first step that raises, 0 when none does
FirstFail(steps) ==
    IF \E i \in 1..Len(steps) : steps[i].exc # NoException
    THEN SetMin({ i \in 1..Len(steps) : steps[i].exc # NoException })
    ELSE 0

\* running the steps in order: what is written, and the exception raised
Run(steps) ==
    IF FirstFail(steps) = 0
    THEN [shown |-> [i \in 1..Len(steps) |-> steps[i].item],
          raised |-> NoException]
    ELSE [shown |-> [i \in 1..(FirstFail(steps) - 1) |-> steps[i].item],
          raised |-> steps[FirstFail(steps)].exc]

\* main goes on at next_pc unless the run raised
Finish(run, next_pc) ==
    /\ display' = display \o run.shown
    /\ uncaught' = run.raised
    /\ pc' = IF run.raised = NoException THEN next_pc ELSE "crashed"

\* an exception that escaped a fetcher ends main
Escaped(exc) == Finish(Run(<<Fail(exc)>>), "crashed")

\* print("\n" + "=" * width + "\n")
Separator(width) == Shown("separator", [width |-> width])

CliOptions == [verbose : BOOLEAN, naaim : BOOLEAN]

DashOptions == [auto_refresh : BOOLEAN, show_details : BOOLEAN]

\* a main whose dashboard goes on to the panels whatever auto_refresh is
MainBegin_nodelay ==
    /\ pc = "main"
    /\ IF program = "cli"
       THEN Finish(Run(<<>>), "cnn_call")
       ELSE Finish(Run(<<Step(Shown("title", [text |-> "Market Sentiment Dashboard"])),
                         Step(Shown("subheader", [text |-> "CNN Fear & Greed Index"]))>>),
                   "cnn_call")
    /\ UNCHANGED <<program, requests, rating_vars, naaim_vars, cnn_vars,
                   detail_vars, options>>

\* test.py 328-340: the arguments are parsed; app.py 184-198: the title and
\* the sidebar, then the delay and the rerun when auto_refresh is checked
MainBegin ==
    /\ pc = "main"
    /\ IF program = "cli"
       THEN Finish(Run(<<>>), "cnn_call")
       ELSE IF options.auto_refresh
       THEN Finish(Run(<<Step(Shown("title", [text |-> "Market Sentiment Dashboard"]))>>),
                   "sleep")
       ELSE Finish(Run(<<Step(Shown("title", [text |-> "Market Sentiment Dashboard"])),
                         Step(Shown("subheader", [text |-> "CNN Fear & Greed Index"]))>>),
                   "cnn_call")
    /\ UNCHANGED <<program, requests, rating_vars, naaim_vars, cnn_vars,
                   detail_vars, options>>

\* app.py 193-195: time.sleep(30); st.rerun().  The script starts again on an
\* empty page, with the checkboxes as the user has left them meanwhile.
Rerun ==
    /\ pc = "sleep"
    /\ pc' = "main"
    /\ display' = <<>>
    /\ options' \in DashOptions
    /\ UNCHANGED <<program, requests, rating_vars, naaim_vars, cnn_vars,
                   detail_vars, uncaught>>

CnnFailed == Shown("cnn_failed", [text |-> "CNN data no shutoku ni shippai shimashita"])

\* test.py 344-350: the composite reading or the failure message, then the
\* separator
CliCnnSteps(fo) ==
    << IF Falsy(cnn_data) THEN Step(CnnFailed)
       ELSE IF fo.kind = "raise" THEN Fail(fo.exc)
       ELSE Step(Shown("cnn_output", fo.value)),
       Step(Separator(30)) >>

\* the float score - previous_close
Difference(a, b) == [minuend |-> a, subtrahend |-> b]

\* app.py 228-239: the gauge, the metric, the rating and the past values
DashCnnPanel(data, show_details) ==
    << IF Unhashable(data["rating"]) THEN Fail("TypeError")
       ELSE IF ~(IsNumber(data["score"]) \/ data["score"] = None)
       THEN Fail("ValueError")
       ELSE Step(Shown("cnn_gauge",
                       create_gauge_chart(data["score"],
                                          "CNN Fear & Greed Index", 100))),
       IF ~IsNumber(data["score"]) THEN Fail(FormatError(data["score"]))
       ELSE IF ~IsNumber(data["previous_close"]) THEN Fail("TypeError")
       ELSE Step(Shown("cnn_metric",
                       [value |-> Format1f(data["score"]),
                        delta |-> Format1f(Difference(data["score"],
                                                      data["previous_close"]))])),
       Step(Shown("cnn_rating", [rating_jp |-> rating_jp(data["rating"])])) >>
        \o (IF show_details
            THEN << Step(Shown("cnn_past_header", [text |-> "kako no atai"])) >>
                   \o [i \in 1..4 |->
                         FormatStep(CnnFormatted(data)[i + 1],
                                    Shown("cnn_past",
                                          [value |-> Format1f(CnnFormatted(data)[i + 1])]))]
            ELSE <<>>)

\* app.py 209-246: the panel of the composite index, then the subheader of
\* the second column
DashCnnSteps ==
    (IF Falsy(cnn_data) THEN <<Step(CnnFailed)>>
     ELSE DashCnnPanel(cnn_data, options.show_details))
        \o << Step(Shown("subheader", [text |-> "NAAIM Exposure Index"])) >>

\* main shows what get_current_index returned
CnnShow ==
    /\ pc = "cnn_done"
    /\ IF cnn_raised # NoException THEN Escaped(cnn_raised)
       ELSE IF program = "cli"
       THEN Finish(Run(CliCnnSteps(
                CNNFearGreedScraper_format_output(cnn_data, options.verbose))),
                   "naaim_call")
       ELSE Finish(Run(DashCnnSteps), "naaim_call")
    /\ UNCHANGED <<program, requests, rating_vars, naaim_vars, cnn_vars,
                   detail_vars, options>>

NaaimFailed ==
    Shown("naaim_failed", [text |-> "NAAIM data no shutoku ni shippai shimashita"])

\* test.py 355-365: the exposure reading or the failure message; with -v the
\* separator and the header of the indicators
CliNaaimSteps(fo) ==
    << IF Falsy(naaim_data) THEN Step(NaaimFailed)
       ELSE IF fo.kind = "raise" THEN Fail(fo.exc)
       ELSE Step(Shown("naaim_output", fo.value)) >>
        \o (IF options.verbose
            THEN << Step(Separator(50)),
                    Step(Shown("header", [text |-> "CNN 7tsu no kosei shihyo"])) >>
            ELSE <<>>)

\* app.py 251-269: the gauge, the metric, the rating and the raw text
DashNaaimPanel(data, sentiment, show_details) ==
    << Step(Shown("naaim_gauge",
                  create_gauge_chart(data.exposure, "NAAIM Exposure Index", 200))),
       Step(Shown("naaim_metric", [value |-> Format1f(data.exposure)])),
       Step(Shown("naaim_rating", [sentiment_jp |-> sentiment[1]])) >>
        \o (IF show_details /\ "raw_text" \in DOMAIN data
            THEN << Step(Shown("naaim_raw_header", [text |-> "shutoku data"])),
                    Step(Shown("naaim_raw", [text |-> data.raw_text])) >>
            ELSE <<>>)

\* app.py 302-306: the rule and the time of the last update
Footer ==
    << Step(Shown("rule", [text |-> "---"])) >>
        \o (IF ~Falsy(cnn_data) /\ ~Falsy(naaim_data)
            THEN <<Step(Shown("caption", [last_updated |-> Now]))>> ELSE <<>>)

\* app.py 273-276: the details are fetched when asked for and there is a
\* composite reading
DashDetails == options.show_details /\ ~Falsy(cnn_data)

\* app.py 249-276 and 302-306
DashNaaimSteps ==
    (IF Falsy(naaim_data) THEN <<Step(NaaimFailed)>>
     ELSE DashNaaimPanel(naaim_data, get_sentiment_rating(naaim_data.exposure),
                         options.show_details))
        \o (IF DashDetails
            THEN << Step(Shown("rule", [text |-> "---"])),
                    Step(Shown("subheader", [text |-> "CNN kosei shihyo no shosai"])) >>
            ELSE Footer)

\* main shows what get_current_exposure returned
NaaimShow ==
    /\ pc = "naaim_done"
    /\ IF naaim_raised # NoException THEN Escaped(naaim_raised)
       ELSE IF program = "cli"
       THEN Finish(Run(CliNaaimSteps(
                NAAIMScraper_format_output(naaim_data, options.verbose))),
                   IF options.verbose THEN "detail_call" ELSE "exit")
       ELSE Finish(Run(DashNaaimSteps),
                   IF DashDetails THEN "detail_call" ELSE "exit")
    /\ UNCHANGED <<program, requests, rating_vars, naaim_vars, cnn_vars,
                   detail_vars, options>>

\* test.py 368-376, app.py 285-293: indicator_names
IndicatorNames ==
    ("market_momentum_sp500" :> "S&P500 momentum")
        @@ ("stock_price_strength" :> "kabuka kyodo")
        @@ ("stock_price_breadth" :> "kabuka haba")
        @@ ("put_call_options" :> "put/call option")
        @@ ("market_volatility_vix" :> "shijo volatility (VIX)")
        @@ ("junk_bond_demand" :> "junk bond juyo")
        @@ ("safe_haven_demand" :> "anzen shisan juyo")

\* test.py 378-380, app.py 295-303: one line, or one metric, per indicator,
\* in the order of indicator_keys
IndicatorSteps(found) ==
    [i \in 1..Len(PresentKeys(found)) |->
        FormatStep(found[PresentKeys(found)[i]]["score"],
                   Shown("indicator",
                         [name |-> IndicatorNames[PresentKeys(found)[i]],
                          score |-> Format1f(found[PresentKeys(found)[i]]["score"]),
                          rating |-> found[PresentKeys(found)[i]]["rating"]]))]

\* test.py 367-385: the indicators, then the separator and the header of the
\* statistics; app.py 281-306: the indicators, then the footer
DetailSteps ==
    (IF Falsy(indicators) THEN <<>> ELSE IndicatorSteps(indicators))
        \o (IF program = "cli"
            THEN << Step(Separator(50)),
                    Step(Shown("header", [text |-> "CNN kako 30 nichikan no tokei joho"])) >>
            ELSE Footer)

\* main shows what get_detailed_indicators returned
DetailShow ==
    /\ pc = "detail_done"
    /\ IF uncaught # NoException THEN Escaped(uncaught)
       ELSE Finish(Run(DetailSteps),
                   IF program = "cli" THEN "history_call" ELSE "exit")
    /\ UNCHANGED <<program, requests, rating_vars, naaim_vars, cnn_vars,
                   detail_vars, options>>

\* historical_data.tail(30)
Tail30(rows) ==
    SubSeq(rows, IF Len(rows) > 30 THEN Len(rows) - 29 ELSE 1, Len(rows))

\* the column 'score' without its missing values
Scores(rows) ==
    SelectSeq([i \in 1..Len(rows) |-> rows[i].score], LAMBDA v : v # None)

RECURSIVE Largest(_)
\* .max()
Largest(vs) ==
    IF Len(vs) = 1 THEN vs[1]
    ELSE IF Less(Largest(Tail(vs)), Head(vs)) THEN Head(vs)
    ELSE Largest(Tail(vs))

RECURSIVE Smallest(_)
\* .min()
Smallest(vs) ==
    IF Len(vs) = 1 THEN vs[1]
    ELSE IF Less(Head(vs), Smallest(Tail(vs))) THEN Head(vs)
    ELSE Smallest(Tail(vs))

\* .mean(): the float sum / count
Mean(vs) == [mean_of |-> vs]

\* the statistic of a column without values
NaN == [nan |-> TRUE]

\* test.py 389-391: the three statistics of the scores vs
StatSteps(vs) ==
    IF Unformattable(vs) # <<>> THEN <<Fail("TypeError")>>
    ELSE IF vs = <<>>
    THEN << Step(Shown("history_mean", [value |-> Format1f(NaN)])),
            Step(Shown("history_max", [value |-> Format1f(NaN)])),
            Step(Shown("history_min", [value |-> Format1f(NaN)])) >>
    ELSE << Step(Shown("history_mean", [value |-> Format1f(Mean(vs))])),
            Step(Shown("history_max", [value |-> Format1f(Largest(vs))])),
            Step(Shown("history_min", [value |-> Format1f(Smallest(vs))])) >>

\* test.py 386-391: `if historical_data is not None and not
\* historical_data.empty`
HistorySteps ==
    IF historical_data = None \/ historical_data = <<>> THEN <<>>
    ELSE StatSteps(Scores(Tail30(historical_data)))

\* main shows what get_historical_data returned
HistoryShow ==
    /\ pc = "history_done"
    /\ IF uncaught # NoException THEN Escaped(uncaught)
       ELSE Finish(Run(HistorySteps), "exit")
    /\ UNCHANGED <<program, requests, rating_vars, naaim_vars, cnn_vars,
                   detail_vars, options>>

(***************************************************************************)
(* SpecMain: a run of main of either program, with sample responses.       *)
(***************************************************************************)
\* a complete composite reading, one without previous_close, one whose score
\* is null
SampleFearGreed ==
    { FearGreedDict([f \in Fields |-> "sample"]),
      FearGreedDict([f \in Fields |->
                        IF f = "previous_close" THEN "absent" ELSE "sample"]),
      FearGreedDict([f \in Fields |-> IF f = "score" THEN "null" ELSE "sample"]) }

\* the value of one sub-indicator in the payload
SampleIndicator(score) ==
    JObj([k \in {"score", "rating"} |->
            IF k = "score" THEN score ELSE JStr("extreme greed")])

\* one item of the history
SampleItem(ms, y) ==
    JObj([k \in {"x", "y", "rating"} |->
            IF k = "x" THEN Int2Dec(ms) ELSE IF k = "y" THEN y ELSE JStr("fear")])

SampleHistory ==
    JObj([k \in {"data"} |->
            JList(<< SampleItem(1000, Tenths(402)), SampleItem(2000, Int2Dec(61)),
                     SampleItem(3000, Tenths(357)) >>)])

\* the whole document of the service for a composite reading d
SampleDocument(d, score) ==
    JObj([k \in {"fear_and_greed", "fear_and_greed_historical",
                 "market_momentum_sp500", "safe_haven_demand"} |->
            CASE k = "fear_and_greed" -> JObj(d)
              [] k = "fear_and_greed_historical" -> SampleHistory
              [] k = "market_momentum_sp500" -> SampleIndicator(score)
              [] k = "safe_haven_demand" -> SampleIndicator(Tenths(88))])

\* the answers of the service in SpecMain: failures, the documents, a
\* document with a null sub-indicator score, and an empty one
SampleCnnResponses ==
    { NetworkFailure("Timeout"), HttpResponse(500, Malformed("JSONDecodeError")),
      HttpResponse(200, Malformed("JSONDecodeError")),
      HttpResponse(200, JsonBody(JObj(EmptyDict))) }
        \cup { HttpResponse(200, JsonBody(SampleDocument(d, Tenths(553)))) :
                 d \in SampleFearGreed }
        \cup { HttpResponse(200, JsonBody(SampleDocument(
                   FearGreedDict([f \in Fields |-> "sample"]), None))) }

SampleProbeResponses ==
    { NetworkFailure("ConnectionError"), HttpResponse(200, EmptyPage) }

SamplePageResponses ==
    { NetworkFailure("Timeout"), HttpResponse(200, Unparsable),
      HttpResponse(200, HtmlPage(TRUE, SampleText)),
      HttpResponse(200, HtmlPage(FALSE, PhraseText \o <<" ", "6", "1", ".", "3">>)) }

InitMain ==
    /\ pc = "main"
    /\ program \in {"cli", "dash"}
    /\ options \in (IF program = "cli" THEN CliOptions ELSE DashOptions)
    /\ RatingIdle
    /\ NaaimStart
    /\ CnnStart
    /\ MainStart

NextMain ==
    \/ MainBegin
    \/ Rerun
    \/ CnnFetch(SampleCnnResponses)
    \/ CnnShow
    \/ NaaimProbe(SampleProbeResponses)
    \/ NaaimFetch(SamplePageResponses)
    \/ NaaimMock
    \/ NaaimShow
    \/ DetailFetch(SampleCnnResponses)
    \/ DetailShow
    \/ HistoryFetch(SampleCnnResponses)
    \/ HistoryShow

SpecMain == InitMain /\ [][NextMain]_vars

(***************************************************************************)
(* Claims about the presenters and main, checked under SpecMain.           *)
(***************************************************************************)
\* main is past the point where it shows the composite reading
CnnShownOrSkipped == pc \notin {"main", "sleep", "cnn_call", "cnn_done", "crashed"}

\* the kinds of things that show a score, a rating or historical values of
\* the composite-index source
CnnValueKinds ==
    { "cnn_output", "cnn_gauge", "cnn_metric", "cnn_rating", "cnn_past",
      "indicator", "history_mean", "history_max", "history_min" }

\* the positions of display that show such values
CnnValuesShown == { i \in 1..Len(display) : display[i].kind \in CnnValueKinds }

\* C10: format_output of either scraper, given an absent (None) reading,
\* returns its fixed 'data could not be retrieved' message whatever the
\* verbosity; and when the composite fetch fails, the CLI and the dashboard
\* each emit an explicit failure message for that source and show no score,
\* rating or historical values for it.
C10_AbsentReadingShownUnavailable ==
    /\ \A v \in BOOLEAN :
          /\ CNNFearGreedScraper_format_output(None, v)
               = [kind |-> "return",
                  value |-> [text |-> "data ga shutoku dekimasen deshita"]]
          /\ NAAIMScraper_format_output(None, v)
               = [kind |-> "return",
                  value |-> [text |-> "NAAIM data ga shutoku dekimasen deshita"]]
    /\ (CnnShownOrSkipped /\ cnn_data = None) =>
          /\ \E i \in 1..Len(display) : display[i].kind = "cnn_failed"
          /\ CnnValuesShown = {}

(***************************************************************************)
(* Claims about the gauges of the dashboard, checked under SpecMain.       *)
(***************************************************************************)
\* the gauges on the page
GaugesShown ==
    { display[i].content : i \in { k \in 1..Len(display) :
                                     display[k].kind \in {"cnn_gauge", "naaim_gauge"} } }

\* the four zones of fig are the quarters of the scale 0..m and its threshold
\* marker sits at 90% of m
QuartersOf(fig, m) ==
    /\ fig.axis_range[2] = Int2Dec(m)
    /\ Len(fig.steps) = 4
    /\ \A i \in 1..4 :
          /\ 4 * fig.steps[i].range[1] = (i - 1) * m
          /\ 4 * fig.steps[i].range[2] = i * m
    /\ 10 * fig.threshold = 9 * m

\* C11: the four color zones of a gauge made by create_gauge_chart are the
\* four quartiles of the caller-supplied scale, contiguous and covering
\* exactly [0, max_val], and the threshold marker sits at 90% of max_val, for
\* every max_val, the 200 of the exposure panel included.
C11_ZonesAreQuartilesOfScale ==
    \A fig \in GaugesShown : QuartersOf(fig, 100) \/ QuartersOf(fig, 200)

\* the part that holds: the gauge of the composite index, on the default
\* scale of 100
C11_DefaultScaleHolds ==
    \A i \in 1..Len(display) :
        display[i].kind = "cnn_gauge" => QuartersOf(display[i].content, 100)

\* C12: one call of get_current_exposure performs exactly one HTTP GET,
\* whatever the response: no second request after a success, after a non-200
\* status, or after a failure.  (Checked under SpecNaaim.)
C12_ExactlyOneGet ==
    /\ pc = "naaim_done" => Len(requests) = 1
    /\ Len(requests) <= 1

\* the part that holds: the dashboard's fetcher issues exactly one GET, and
\* the CLI's issues a second one only after its first was answered
C12_DashboardOneGet ==
    pc = "naaim_done" =>
        IF program = "dash" \/ naaim_probe.kind = "exception"
        THEN Len(requests) = 1
        ELSE requests = <<NaaimProbeUrl, NaaimPageUrl>>

(***************************************************************************)
(* SpecDetail: one call of get_detailed_indicators on a scraper whose      *)
(* get_current_index has returned, in either program.                      *)
(***************************************************************************)
IndicatorKeySet == { IndicatorKeys[i] : i \in 1..Len(IndicatorKeys) }

\* an entry of the payload with the fields of the set present
EntryWith(present) ==
    JObj([field \in present |->
            CASE field = "score" -> Tenths(714)
              [] field = "rating" -> JStr("greed")
              [] field = "timestamp" -> JStr("2024-01-05T23:59:52+00:00")])

\* the document in which each sub-indicator is absent, complete, or has its
\* rating only, next to the composite reading and a key that is no indicator
DetailDocument(choice) ==
    JObj([k \in { key \in IndicatorKeySet : choice[key] # "absent" }
                    \cup {"fear_and_greed", "vix_futures"} |->
            IF k = "fear_and_greed"
            THEN JObj(FearGreedDict([f \in Fields |-> "sample"]))
            ELSE IF k = "vix_futures" \/ choice[k] = "complete"
            THEN EntryWith({"score", "rating", "timestamp"})
            ELSE EntryWith({"rating"})])

\* documents with one sub-indicator, holding any subset of the three fields,
\* or no dict at all
OneIndicatorDocuments ==
    { JObj([k \in {"junk_bond_demand"} |-> EntryWith(present)]) :
        present \in SUBSET {"score", "rating", "timestamp"} }
      \cup { JObj([k \in {"junk_bond_demand"} |-> None]),
             JObj([k \in {"junk_bond_demand"} |-> Tenths(714)]) }

DetailResponses ==
    NetworkFailures
        \cup { HttpResponse(503, Malformed("JSONDecodeError")),
               HttpResponse(200, Malformed("JSONDecodeError")),
               HttpResponse(200, JsonBody(JList(<<>>))),
               HttpResponse(200, JsonBody(None)) }
        \cup { HttpResponse(200, JsonBody(d)) : d \in OneIndicatorDocuments }
        \cup { HttpResponse(200, JsonBody(DetailDocument(choice))) :
                 choice \in [IndicatorKeySet -> {"absent", "complete", "rating"}] }

\* get_current_index has returned for the response r
AfterCnnFetch(r) ==
    /\ requests = <<CnnApiUrl>>
    /\ cnn_response = r
    /\ cnn_data = CnnOutcome(CnnTry(r), CnnHandlers(program)).data
    /\ cnn_raised = CnnOutcome(CnnTry(r), CnnHandlers(program)).raised
    /\ display = CnnOutcome(CnnTry(r), CnnHandlers(program)).shown

InitDetail ==
    /\ pc = "detail_call"
    /\ program \in {"cli", "dash"}
    /\ options = Defaults(program)
    /\ RatingIdle
    /\ naaim_probe = None
    /\ naaim_response = None
    /\ naaim_data = None
    /\ naaim_raised = NoException
    /\ \E r \in SampleCnnResponses : AfterCnnFetch(r)
    /\ detail_response = None
    /\ indicators = None
    /\ history_response = None
    /\ historical_data = None
    /\ uncaught = NoException

NextDetail == DetailFetch(DetailResponses)

SpecDetail == InitDetail /\ [][NextDetail]_vars

\* the payload of the detail fetch: a JSON object all of whose sub-indicator
\* values are objects
DetailPayload ==
    /\ detail_response.kind = "response"
    /\ detail_response.status_code = 200
    /\ detail_response.body.kind = "json"
    /\ DOMAIN detail_response.body.value = {"obj"}
    /\ \A key \in IndicatorKeySet \cap DOMAIN detail_response.body.value.obj :
          DOMAIN detail_response.body.value.obj[key] = {"obj"}

\* the detail fetch failed: no connection, a timeout, an HTTP error status,
\* or a body that is no JSON
DetailFailure ==
    \/ detail_response.kind = "exception"
    \/ /\ detail_response.kind = "response"
       /\ \/ detail_response.status_code >= 400
          \/ detail_response.body.kind = "malformed"

\* the entry of key is made of the payload's value sent, with the defaults
EntryMadeOf(entry, sent) ==
    /\ DOMAIN entry = {"score", "rating", "timestamp"}
    /\ entry["score"] = IF "score" \in DOMAIN sent THEN sent["score"] ELSE Int2Dec(0)
    /\ entry["rating"] = IF "rating" \in DOMAIN sent THEN sent["rating"]
                         ELSE [str |-> ""]
    /\ entry["timestamp"] = IF "timestamp" \in DOMAIN sent THEN sent["timestamp"]
                            ELSE [str |-> ""]

\* what holds of the value get_detailed_indicators returned
DetailResult ==
    pc = "detail_done" =>
        /\ uncaught = NoException
        /\ indicators # None =>
              DOMAIN indicators \subseteq
                  { "market_momentum_sp500", "stock_price_strength",
                    "stock_price_breadth", "put_call_options",
                    "market_volatility_vix", "junk_bond_demand",
                    "safe_haven_demand" }
        /\ DetailPayload =>
              /\ indicators # None
              /\ DOMAIN indicators =
                    { "market_momentum_sp500", "stock_price_strength",
                      "stock_price_breadth", "put_call_options",
                      "market_volatility_vix", "junk_bond_demand",
                      "safe_haven_demand" }
                        \cap DOMAIN detail_response.body.value.obj
              /\ \A key \in DOMAIN indicators :
                    EntryMadeOf(indicators[key],
                                detail_response.body.value.obj[key].obj)
        /\ DetailFailure => indicators = None

\* the detail fetch leaves the main reading as it is
MainReadingKept ==
    pc = "detail_call" =>
        /\ cnn_data' = cnn_data
        /\ cnn_raised' = cnn_raised
        /\ cnn_response' = cnn_response

\* C13: get_detailed_indicators returns a mapping whose keys are exactly the
\* fixed sub-indicator names that occur as top-level keys of the payload (at
\* most seven, never another key); each entry has score, rating and timestamp,
\* a missing score being 0 and a missing rating or timestamp the empty string;
\* a failed detail fetch yields an absent result and does not alter a main
\* reading already obtained.
C13_IndicatorsOfPayload == []DetailResult /\ [][MainReadingKept]_vars

\* C13 witness: a main reading was obtained, the payload held three of the
\* seven sub-indicators, one of them with its rating only
C13_Witness ==
    /\ pc = "detail_done"
    /\ cnn_data # None
    /\ DetailPayload
    /\ DOMAIN indicators =
          {"market_momentum_sp500", "put_call_options", "safe_haven_demand"}
    /\ "vix_futures" \in DOMAIN detail_response.body.value.obj
    /\ indicators["put_call_options"]["score"] = Int2Dec(0)
    /\ indicators["put_call_options"]["rating"] = [str |-> "greed"]
    /\ indicators["safe_haven_demand"]["score"] = Tenths(714)

\* a failed detail fetch after a main reading: the reading is still there
C13_FailureWitness ==
    /\ pc = "detail_done"
    /\ DetailFailure
    /\ indicators = None
    /\ cnn_data # None

(***************************************************************************)
(* Claims about the order of a run of the CLI, checked under SpecMain.     *)
(***************************************************************************)
\* the positions of display that hold something of one of the kinds
Positions(kinds) == { i \in 1..Len(display) : display[i].kind \in kinds }

\* a GET of one of the two NAAIM pages was issued
NaaimRequested ==
    \E i \in 1..Len(requests) : requests[i] \in {NaaimProbeUrl, NaaimPageUrl}

\* the run of main is over
RunOver == pc \in {"exit", "crashed"}

\* the composite output or its failure message was emitted before any NAAIM
\* request, and at the end of the run the exposure output follows it
FixedOrder ==
    /\ NaaimRequested =>
          /\ requests[1] = CnnApiUrl
          /\ Positions({"cnn_output", "cnn_failed"}) # {}
    /\ RunOver =>
          /\ NaaimRequested
          /\ \E i \in Positions({"cnn_output", "cnn_failed"}) :
                \E j \in Positions({"naaim_output", "naaim_failed"}) : i < j

\* C14: in every run of the CLI the composite-index output (or its failure
\* message) is emitted first, then the percentage-index fetch is performed
\* and its output emitted, whether or not the composite fetch failed and
\* whether or not --naaim was given.
C14_BothFetchersInFixedOrder ==
    program = "cli" => \A flag \in BOOLEAN : options.naaim = flag => FixedOrder

\* the composite reading can be formatted in the verbose report
Formattable ==
    cnn_data # None =>
        \A f \in {"score", "previous_close", "previous_1_week",
                  "previous_1_month", "previous_1_year"} :
            DOMAIN cnn_data[f] = {"neg", "ip", "fp"}

\* the part that holds: the runs whose composite reading has numbers in its
\* numeric fields, or that are not verbose
C14_OrderWhenFormattable ==
    (program = "cli" /\ (Formattable \/ ~options.verbose)) => FixedOrder

(***************************************************************************)
(* Claims about the provenance of an exposure reading, checked under       *)
(* SpecMain.                                                               *)
(***************************************************************************)
\* the provenance markers a reading carries
Markers(data) == {"source", "note"} \cap DOMAIN data

\* the values of the lines of a report that have the label
LinesOf(lines, label) ==
    { lines[i].value : i \in { j \in 1..Len(lines) : lines[j].label = label } }

\* what a report says about the provenance of the reading it was made of
ReportMatches(content, data) ==
    IF options.verbose
    THEN /\ "lines" \in DOMAIN content
         /\ LinesOf(content.lines, "data source") =
                (IF "source" \in DOMAIN data
                 THEN {[text |-> data.source]} ELSE {})
         /\ LinesOf(content.lines, "chui") =
                (IF "note" \in DOMAIN data
                 THEN {[text |-> data.note]} ELSE {})
    ELSE DOMAIN content = {"exposure", "sentiment_jp"}

\* C15: every reading get_current_exposure returns carries exactly one of
\* 'source' and 'note'; the verbose report of NAAIMScraper.format_output has
\* the data-source line exactly when the reading has 'source' and the note
\* line exactly when it has 'note', and the non-verbose line has neither.
C15_OneProvenanceMarker ==
    /\ naaim_data # None => Cardinality(Markers(naaim_data)) = 1
    /\ program = "cli" =>
          \A i \in Positions({"naaim_output"}) :
              ReportMatches(display[i].content, naaim_data)

\* the verbose report of a synthetic reading was printed with its note
C15_Witness ==
    /\ program = "cli"
    /\ options.verbose
    /\ naaim_data # None
    /\ Markers(naaim_data) = {"note"}
    /\ \E i \in Positions({"naaim_output"}) :
          LinesOf(display[i].content.lines, "chui") # {}

\* the verbose report of a reading of the site was printed with its source,
\* and the short line of a reading was printed
C15_SourceWitness ==
    /\ program = "cli"
    /\ naaim_data # None
    /\ Markers(naaim_data) = {"source"}
    /\ \E i \in Positions({"naaim_output"}) :
          IF options.verbose
          THEN LinesOf(display[i].content.lines, "data source") # {}
          ELSE "exposure" \in DOMAIN display[i].content

(***************************************************************************)
(* Claims about the automatic refresh of the dashboard, checked under      *)
(* SpecMain.                                                               *)
(***************************************************************************)
\* the dashboard runs with the auto-refresh checkbox checked
AutoRefreshOn == program = "dash" /\ options.auto_refresh

\* what the page shows besides its title
PanelItems == Positions({display[i].kind : i \in 1..Len(display)} \ {"title"})

\* a step of such a run: the delay after the sidebar, or the restart of the
\* script on an empty page
DelayOrRestart ==
    \/ pc = "main" /\ pc' = "sleep"
    \/ pc = "sleep" /\ pc' = "main" /\ display' = <<>>

\* a step that issues a GET or renders something of a panel
FetchesOrRenders ==
    \/ requests' # requests
    \/ \E i \in 1..Len(display') :
          /\ display'[i].kind # "title"
          /\ (i > Len(display) \/ display[i] # display'[i])

\* C16: while auto_refresh is checked every run of the dashboard's main
\* sleeps and restarts before either fetcher is called: no GET is issued and
\* nothing of a panel is rendered; fetching and rendering happen only in a
\* run in which the checkbox is off.
C16_AutoRefreshNeverFetches ==
    /\ [](AutoRefreshOn =>
            /\ pc \in {"main", "sleep"}
            /\ requests = <<>>
            /\ PanelItems = {})
    /\ [][AutoRefreshOn => (DelayOrRestart /\ ~FetchesOrRenders)]_vars
    /\ [][(program = "dash" /\ FetchesOrRenders) => ~options.auto_refresh]_vars

\* the delay of a run with the checkbox checked: only the title is on the page
C16_Witness ==
    /\ AutoRefreshOn
    /\ pc = "sleep"
    /\ Len(display) = 1
    /\ display[1].kind = "title"
    /\ requests = <<>>

\* a run with the checkbox off has fetched both readings and rendered the
\* exposure panel
C16_FetchWitness ==
    /\ program = "dash"
    /\ ~options.auto_refresh
    /\ Len(requests) >= 2
    /\ Positions({"naaim_gauge"}) # {}

====
